---- MODULE Spec2Model ----
(***************************************************************************)
(* Model of the subway-finder back end (src/back-end/main.py): the chat    *)
(* endpoint with its deterministic resolvers and LLM fallback, the         *)
(* closing-time normalizer, the context compressor and the nearby-outlets  *)
(* endpoint.                                                               *)
(*                                                                         *)
(* Text is a sequence of one-character strings, so that lower(), upper(),  *)
(* replace(' ', ''), strip(), title(), substring tests and the regular     *)
(* expressions are computed character by character as Python computes      *)
(* them.  An Optional value is a sequence of length at most one: None is   *)
(* <<>> and a present value x is <<x>>.                                    *)
(***************************************************************************)
EXTENDS Integers, Sequences, FiniteSets, TLC

VARIABLES
    outlets,        \* the rows of the "outlets" table (the snapshot a request reads)
    pc,             \* position of the request being served
    query,          \* ChatRequest.query of the request being served
    ran,            \* the resolvers run for the request being served, in order
    direct_answer,  \* chat_completion's local direct_answer (Optional text)
    llm_calls,      \* requests.post calls to the completion service for this request
    prompt,         \* what handle_llm_processing sent: total, compressed rows, question
    llm_reply,      \* what the completion service did: [failed, content]
    response,       \* the HTTP response: [status, answer]
    hours_str,      \* argument of extract_and_normalize_closing_time (Optional text)
    closing_time,   \* its return value (Optional minutes)
    ntok,           \* number of tokens appended to hours_str
    closing_token,  \* return value of extract_closing_time on hours_str (Optional text)
    origin,         \* arguments of get_nearby_outlets: [latitude, longitude, distance_km]
    results         \* the list get_nearby_outlets returns

vars == <<outlets, pc, query, ran, direct_answer, llm_calls, prompt, llm_reply, response,
          hours_str, closing_time, ntok, closing_token, origin, results>>

---------------------------------------------------------------------------
(* Optional values *)

None == <<>>
Some(x) == <<x>>
Get(o) == o[1]

---------------------------------------------------------------------------
(* Python str operations, character by character *)

UpperLetters == <<"A","B","C","D","E","F","G","H","I","J","K","L","M",
                  "N","O","P","Q","R","S","T","U","V","W","X","Y","Z">>
LowerLetters == <<"a","b","c","d","e","f","g","h","i","j","k","l","m",
                  "n","o","p","q","r","s","t","u","v","w","x","y","z">>
Digits == <<"0","1","2","3","4","5","6","7","8","9">>

IsUpper(c) == \E i \in 1..26 : UpperLetters[i] = c
IsLower(c) == \E i \in 1..26 : LowerLetters[i] = c
IsLetter(c) == IsUpper(c) \/ IsLower(c)
IsDigit(c) == \E i \in 1..10 : Digits[i] = c
IsSpace(c) == c = " "

LowerChar(c) == IF IsUpper(c)
                THEN LowerLetters[CHOOSE i \in 1..26 : UpperLetters[i] = c]
                ELSE c
UpperChar(c) == IF IsLower(c)
                THEN UpperLetters[CHOOSE i \in 1..26 : LowerLetters[i] = c]
                ELSE c

\* str.lower(), str.upper()
Lower(s) == [i \in 1..Len(s) |-> LowerChar(s[i])]
Upper(s) == [i \in 1..Len(s) |-> UpperChar(s[i])]

\* str.replace(' ', '')
RemoveSpaces(s) == SelectSeq(s, LAMBDA c : c # " ")

\* needle in hay
Contains(hay, needle) ==
    \E i \in 0..(Len(hay) - Len(needle)) :
        SubSeq(hay, i + 1, i + Len(needle)) = needle

\* str.title(): a letter is upper-cased when no letter precedes it, else lower-cased
Title(s) == [i \in 1..Len(s) |->
                IF i = 1 \/ ~IsLetter(s[i - 1]) THEN UpperChar(s[i]) ELSE LowerChar(s[i])]

\* str.strip()
RECURSIVE LStrip(_)
LStrip(s) == IF s # <<>> /\ IsSpace(Head(s)) THEN LStrip(Tail(s)) ELSE s
RECURSIVE RStrip(_)
RStrip(s) == IF s # <<>> /\ IsSpace(s[Len(s)]) THEN RStrip(SubSeq(s, 1, Len(s) - 1)) ELSE s
Strip(s) == RStrip(LStrip(s))

\* s[:n]
Prefix(s, n) == SubSeq(s, 1, IF Len(s) < n THEN Len(s) ELSE n)

\* int(digits)
DigitVal(c) == (CHOOSE i \in 1..10 : Digits[i] = c) - 1
RECURSIVE ToInt(_)
ToInt(ds) == IF ds = <<>> THEN 0
             ELSE 10 * ToInt(SubSeq(ds, 1, Len(ds) - 1)) + DigitVal(ds[Len(ds)])

\* str(n) for n >= 0
RECURSIVE ToStr(_)
ToStr(n) == IF n < 10 THEN <<Digits[n + 1]>>
            ELSE ToStr(n \div 10) \o <<Digits[(n % 10) + 1]>>

\* sep.join(parts)
RECURSIVE Join(_, _)
Join(sep, parts) == IF parts = <<>> THEN <<>>
                    ELSE IF Len(parts) = 1 THEN parts[1]
                    ELSE parts[1] \o sep \o Join(sep, Tail(parts))

RECURSIVE MaxOf(_)
MaxOf(xs) == IF Len(xs) = 1 THEN xs[1]
             ELSE LET m == MaxOf(Tail(xs)) IN IF xs[1] >= m THEN xs[1] ELSE m

---------------------------------------------------------------------------
(* The regular expressions of main.py.  A match attempt at position i      *)
(* yields [ok, end, groups, text]: end is the position after the match,    *)
(* groups the captured groups, text the whole match.                       *)

NoMatch == [ok |-> FALSE, end |-> 0, groups |-> <<>>, text |-> <<>>]

AM == <<"A","M">>
PM == <<"P","M">>

\* \d{n} at position i
DigitsAt(s, i, n) == i + n - 1 <= Len(s) /\ \A k \in i..(i + n - 1) : IsDigit(s[k])
\* one character of the class cs at position i
CharAt(s, i, cs) == i <= Len(s) /\ s[i] \in cs
\* [AP]M at position i
AmPmAt(s, i) == CharAt(s, i, {"A", "P"}) /\ CharAt(s, i + 1, {"M"})
\* \s* from position i (greedy): the position after the white space
RECURSIVE SkipSpace(_, _)
SkipSpace(s, i) == IF i <= Len(s) /\ IsSpace(s[i]) THEN SkipSpace(s, i + 1) ELSE i

\* (\d{1,2}):(\d{2})\s*([AP]M) with an hour of n digits
TryHourMinAmPm(s, i, n) ==
    LET j == SkipSpace(s, i + n + 3) IN
    IF DigitsAt(s, i, n) /\ CharAt(s, i + n, {":"}) /\ DigitsAt(s, i + n + 1, 2)
       /\ AmPmAt(s, j)
    THEN [ok |-> TRUE, end |-> j + 2,
          groups |-> <<SubSeq(s, i, i + n - 1), SubSeq(s, i + n + 1, i + n + 2),
                       SubSeq(s, j, j + 1)>>,
          text |-> SubSeq(s, i, j + 1)]
    ELSE NoMatch

\* (\d{1,2})\s*([AP]M) with an hour of n digits
TryHourAmPm(s, i, n) ==
    LET j == SkipSpace(s, i + n) IN
    IF DigitsAt(s, i, n) /\ AmPmAt(s, j)
    THEN [ok |-> TRUE, end |-> j + 2,
          groups |-> <<SubSeq(s, i, i + n - 1), SubSeq(s, j, j + 1)>>,
          text |-> SubSeq(s, i, j + 1)]
    ELSE NoMatch

\* (\d{1,2}[AP]M) with an hour of n digits: no white space allowed
TryHourAmPmTight(s, i, n) ==
    IF DigitsAt(s, i, n) /\ AmPmAt(s, i + n)
    THEN [ok |-> TRUE, end |-> i + n + 2,
          groups |-> <<SubSeq(s, i, i + n + 1)>>,
          text |-> SubSeq(s, i, i + n + 1)]
    ELSE NoMatch

\* (\d{1,2}):(\d{2}) with an hour of n digits
TryHourMin(s, i, n) ==
    IF DigitsAt(s, i, n) /\ CharAt(s, i + n, {":"}) /\ DigitsAt(s, i + n + 1, 2)
    THEN [ok |-> TRUE, end |-> i + n + 3,
          groups |-> <<SubSeq(s, i, i + n - 1), SubSeq(s, i + n + 1, i + n + 2)>>,
          text |-> SubSeq(s, i, i + n + 2)]
    ELSE NoMatch

\* \d{1,2} is greedy: two digits are tried first, one digit on backtracking
Greedy(two, one) == IF two.ok THEN two ELSE one

\* re.match of pattern p at position i of s
MatchAt(p, s, i) ==
    CASE p = "H:MM AM/PM" -> Greedy(TryHourMinAmPm(s, i, 2), TryHourMinAmPm(s, i, 1))
      [] p = "H AM/PM"    -> Greedy(TryHourAmPm(s, i, 2), TryHourAmPm(s, i, 1))
      [] p = "HAM/PM"     -> Greedy(TryHourAmPmTight(s, i, 2), TryHourAmPmTight(s, i, 1))
      [] p = "H:MM"       -> Greedy(TryHourMin(s, i, 2), TryHourMin(s, i, 1))

\* re.findall(p, s): the leftmost non-overlapping matches, scanning from position i
RECURSIVE FindAllFrom(_, _, _)
FindAllFrom(p, s, i) ==
    IF i > Len(s) THEN <<>>
    ELSE LET m == MatchAt(p, s, i) IN
         IF m.ok THEN <<m>> \o FindAllFrom(p, s, m.end)
         ELSE FindAllFrom(p, s, i + 1)
FindAll(p, s) == FindAllFrom(p, s, 1)

---------------------------------------------------------------------------
(* extract_and_normalize_closing_time *)

\* the patterns list of extract_and_normalize_closing_time
NormalizePatterns == <<"H:MM AM/PM", "H AM/PM", "H:MM">>

\* the body of "for match in matches": the minutes appended for one match
MatchMinutes(groups) ==
    IF Len(groups) = 3
    THEN LET hour == ToInt(groups[1])
             minute == ToInt(groups[2])
             ampm == groups[3]
             hour24 == IF ampm = PM /\ hour # 12 THEN hour + 12
                       ELSE IF ampm = AM /\ hour = 12 THEN 0
                       ELSE hour
         IN hour24 * 60 + minute
    ELSE IF groups[2] \in {AM, PM}
    THEN LET hour == ToInt(groups[1])
             hour24 == IF groups[2] = PM /\ hour # 12 THEN hour + 12
                       ELSE IF groups[2] = AM /\ hour = 12 THEN 0
                       ELSE hour
         IN hour24 * 60
    ELSE ToInt(groups[1]) * 60 + ToInt(groups[2])

\* times_found after the loop over the first n patterns
RECURSIVE TimesFound(_, _)
TimesFound(s, n) ==
    IF n = 0 THEN <<>>
    ELSE LET matches == FindAll(NormalizePatterns[n], s) IN
         TimesFound(s, n - 1) \o [k \in 1..Len(matches) |-> MatchMinutes(matches[k].groups)]

extract_and_normalize_closing_time(hours) ==
    IF hours = None \/ Get(hours) = <<>> THEN None
    ELSE LET times_found == TimesFound(Upper(Get(hours)), Len(NormalizePatterns)) IN
         IF times_found # <<>> THEN Some(MaxOf(times_found)) ELSE None

---------------------------------------------------------------------------
(* Deterministic resolvers *)

\* Python truthiness of an Optional text ("if direct_answer:", "if not hours:")
TruthyText(o) == o # None /\ Get(o) # <<>>
\* Python truthiness of an Optional integer ("if closing_time:")
TruthyInt(o) == o # None /\ Get(o) # 0

\* f"{x}" of an Optional text: str(None) is "None"
Fmt(o) == IF o = None THEN <<"N","o","n","e">> ELSE Get(o)

\* the locations list of handle_counting_directly
CountingLocations ==
    << <<"b","a","n","g","s","a","r">>,
       <<"k","l","c","c">>,
       <<"m","o","n","t"," ","k","i","a","r","a">>,
       <<"p","j">>,
       <<"s","u","b","a","n","g">>,
       <<"d","a","m","a","n","s","a","r","a">>,
       <<"a","m","p","a","n","g">>,
       <<"c","h","e","r","a","s">>,
       <<"s","h","a","h"," ","a","l","a","m">>,
       <<"p","e","t","a","l","i","n","g"," ","j","a","y","a">> >>

\* the trigger words of handle_direct_processing
CountingTriggers == { <<"h","o","w"," ","m","a","n","y">>, <<"c","o","u","n","t">> }
LatestTriggers == { <<"c","l","o","s","e","s"," ","l","a","t","e","s","t">>,
                    <<"l","a","t","e","s","t"," ","c","l","o","s","i","n","g">> }

\* target_location after the loop over the first n locations: the loop breaks at
\* the first location found in the question, spaces removed on both sides
RECURSIVE TargetLocation(_, _)
TargetLocation(query_lower, n) ==
    IF n = 0 THEN None
    ELSE LET before == TargetLocation(query_lower, n - 1) IN
         IF before # None THEN before
         ELSE IF Contains(RemoveSpaces(query_lower), RemoveSpaces(CountingLocations[n]))
              THEN Some(CountingLocations[n])
              ELSE None

\* the address test without .lower(): letter case is not ignored
AddressMatchesCaseSensitive(target, outlet) ==
    Contains(RemoveSpaces(Get(outlet.address)), RemoveSpaces(target))

\* whether the address of a row matches the target location
AddressMatches(target, outlet) ==
    Contains(RemoveSpaces(Lower(Get(outlet.address))), RemoveSpaces(target))

\* the count without the "if target_location" test: no location counts as zero
CountForNoDecline(target_location, rows) ==
    [raised |-> FALSE,
     value |-> Some(ToStr(Cardinality({i \in 1..Len(rows) :
                              /\ target_location # None
                              /\ AddressMatches(Get(target_location), rows[i])}))
                    \o <<" ","o","u","t","l","e","t","s"," ","i","n"," ">>
                    \o (IF target_location = None THEN <<>>
                        ELSE Title(Get(target_location))))]

\* handle_counting_directly from "if target_location" on;
\* outlet.get('address', '').lower() raises AttributeError on a null address
CountFor(target_location, rows) ==
    IF target_location = None THEN [raised |-> FALSE, value |-> None]
    ELSE IF \E i \in 1..Len(rows) : rows[i].address = None
    THEN [raised |-> TRUE, value |-> None]
    ELSE [raised |-> FALSE,
          value |-> Some(ToStr(Cardinality({i \in 1..Len(rows) :
                                   AddressMatches(Get(target_location), rows[i])}))
                         \o <<" ","o","u","t","l","e","t","s"," ","i","n"," ">>
                         \o Title(Get(target_location)))]

\* handle_counting_directly: [raised, value]
handle_counting_directly(query_lower, rows) ==
    CountFor(TargetLocation(query_lower, Len(CountingLocations)), rows)

\* list.sort(key=lambda x: x[1], reverse=True): stable, so each element goes
\* after the elements already placed whose time is not smaller
RECURSIVE InsertDesc(_, _)
InsertDesc(sorted, x) ==
    IF sorted = <<>> THEN <<x>>
    ELSE IF Head(sorted).time >= x.time THEN <<Head(sorted)>> \o InsertDesc(Tail(sorted), x)
    ELSE <<x>> \o sorted
RECURSIVE SortDesc(_)
SortDesc(xs) ==
    IF xs = <<>> THEN <<>>
    ELSE InsertDesc(SortDesc(SubSeq(xs, 1, Len(xs) - 1)), xs[Len(xs)])

\* whether handle_latest_closing_directly keeps a row: "if closing_time:"
KeepsTime(closing) == TruthyInt(closing)

\* outlet_times after the loop over the rows
RECURSIVE OutletTimes(_)
OutletTimes(rows) ==
    IF rows = <<>> THEN <<>>
    ELSE LET outlet == Head(rows)
             closing == extract_and_normalize_closing_time(outlet.operating_hours)
         IN (IF KeepsTime(closing)
             THEN <<[name |-> outlet.name, time |-> Get(closing)]>>
             ELSE <<>>) \o OutletTimes(Tail(rows))

NotAvailable == <<"C","l","o","s","i","n","g"," ","t","i","m","e","s"," ","n","o","t"," ","a","v","a","i","l","a","b","l","e">>
ClosesLatest == <<" ","-"," ","C","l","o","s","e","s"," ","l","a","t","e","s","t">>
TheseCloseLatest == <<"T","h","e","s","e"," ","o","u","t","l","e","t","s"," ","c","l","o","s","e"," ","l","a","t","e","s","t",":"," ">>

\* latest_outlets: the names, in sorted order, of the entries with the time of
\* the first entry of the sorted list
LatestOutlets(sorted) ==
    [i \in 1..Len(SelectSeq(sorted, LAMBDA x : x.time = sorted[1].time)) |->
        SelectSeq(sorted, LAMBDA x : x.time = sorted[1].time)[i].name]

\* the return statements; ', '.join raises TypeError on a null name
LatestAnswer(latest_outlets) ==
    IF Len(latest_outlets) = 1
    THEN [raised |-> FALSE, value |-> Some(Fmt(latest_outlets[1]) \o ClosesLatest)]
    ELSE IF \E i \in 1..Len(latest_outlets) : latest_outlets[i] = None
    THEN [raised |-> TRUE, value |-> None]
    ELSE [raised |-> FALSE,
          value |-> Some(TheseCloseLatest \o
                         Join(<<",", " ">>,
                              [i \in 1..Len(latest_outlets) |-> Get(latest_outlets[i])]))]

\* handle_latest_closing_directly from "if not outlet_times" on
LatestFromTimes(outlet_times) ==
    IF outlet_times = <<>> THEN [raised |-> FALSE, value |-> Some(NotAvailable)]
    ELSE LatestAnswer(LatestOutlets(SortDesc(outlet_times)))

\* handle_latest_closing_directly: [raised, value]
handle_latest_closing_directly(rows) == LatestFromTimes(OutletTimes(rows))

\* the branch handle_direct_processing takes
HasTrigger(query_lower, triggers) == \E w \in triggers : Contains(query_lower, w)
\* the two tests of handle_direct_processing in the other order
ClassifyLatestFirst(q) ==
    IF HasTrigger(Lower(q), LatestTriggers) THEN "latest"
    ELSE IF HasTrigger(Lower(q), CountingTriggers) THEN "counting"
    ELSE "none"
Classify(q) ==
    IF HasTrigger(Lower(q), CountingTriggers) THEN "counting"
    ELSE IF HasTrigger(Lower(q), LatestTriggers) THEN "latest"
    ELSE "none"

---------------------------------------------------------------------------
(* Context compressor *)

\* the locations list of extract_location_keywords
CompressLocations ==
    << <<"B","a","n","g","s","a","r">>,
       <<"K","L","C","C">>,
       <<"M","o","n","t"," ","K","i","a","r","a">>,
       <<"P","J">>,
       <<"S","u","b","a","n","g">>,
       <<"D","a","m","a","n","s","a","r","a">>,
       <<"A","m","p","a","n","g">>,
       <<"C","h","e","r","a","s">>,
       <<"K","L">>,
       <<"S","e","l","a","n","g","o","r">>,
       <<"S","h","a","h"," ","A","l","a","m">> >>

Unknown == <<"U","n","k","n","o","w","n">>

RECURSIVE FirstFound(_, _)
FirstFound(address, n) ==
    IF n = 0 THEN None
    ELSE LET before == FirstFound(address, n - 1) IN
         IF before # None THEN before
         ELSE IF Contains(Lower(address), Lower(CompressLocations[n]))
              THEN Some(CompressLocations[n])
              ELSE None

extract_location_keywords(address) ==
    IF ~TruthyText(address) THEN Unknown
    ELSE LET found == FirstFound(Get(address), Len(CompressLocations)) IN
         IF found # None THEN Get(found) ELSE Prefix(Get(address), 20)

\* the patterns list of extract_closing_time
ClosingPatterns == <<"H:MM AM/PM", "HAM/PM", "H:MM">>

\* the loop returning matches[0], the first match, instead of matches[-1]
RECURSIVE FirstMatch(_, _)
FirstMatch(s, n) ==
    IF n > Len(ClosingPatterns) THEN None
    ELSE LET matches == FindAll(ClosingPatterns[n], s) IN
         IF matches # <<>> THEN Some(matches[1].text)
         ELSE FirstMatch(s, n + 1)

\* the loop over the patterns, from pattern n on: the last match of the first
\* pattern that matches at all
RECURSIVE LastMatch(_, _)
LastMatch(s, n) ==
    IF n > Len(ClosingPatterns) THEN None
    ELSE LET matches == FindAll(ClosingPatterns[n], s) IN
         IF matches # <<>> THEN Some(matches[Len(matches)].text)
         ELSE LastMatch(s, n + 1)

extract_closing_time(hours) ==
    IF ~TruthyText(hours) THEN Unknown
    ELSE LET m == LastMatch(Upper(Get(hours)), 1) IN
         IF m # None THEN Get(m) ELSE Prefix(Get(hours), 10)

compress_outlet_data(rows) ==
    [i \in 1..Len(rows) |->
        Fmt(rows[i].name) \o <<"|">> \o extract_location_keywords(rows[i].address)
        \o <<"|">> \o extract_closing_time(rows[i].operating_hours)]

---------------------------------------------------------------------------
(* The vector store.  No endpoint calls build_vector_store: the fallback of *)
(* chat_completion is handle_llm_processing over the compressed rows, and   *)
(* the module has no function that queries an index.                        *)

\* f"{o['name']} at {o['address']}. Hours: {o.get('operating_hours', 'N/A')}"
OutletText(o) ==
    Fmt(o.name) \o <<" ","a","t"," ">> \o Fmt(o.address)
    \o <<"."," ","H","o","u","r","s",":"," ">> \o Fmt(o.operating_hours)

\* build_vector_store: [raised, ntotal, outlet_texts].  embedded says whether
\* the embedding service returned one vector per text; np.array of an empty
\* list has shape (0,), so embeddings.shape[1] raises IndexError for no rows
build_vector_store(rows, embedded) ==
    IF ~embedded \/ Len(rows) = 0
    THEN [raised |-> TRUE, ntotal |-> 0, outlet_texts |-> <<>>]
    ELSE [raised |-> FALSE, ntotal |-> Len(rows),
          outlet_texts |-> [i \in 1..Len(rows) |-> OutletText(rows[i])]]

---------------------------------------------------------------------------
(* GET /outlets/nearby.  Coordinates are in hundredths of a degree; a      *)
(* distance is in millimetres, distance_km in the response in metres       *)
(* (thousandths of a kilometre, the three decimals round() keeps).         *)

\* <<lat1, lon1, lat2, lon2, d>>: d is the value of the haversine formula
\* (R = 6371 km) for the two points, in millimetres rounded up.  The sines and
\* cosines have period 360 degrees, so a point 360 degrees off is as far from
\* the rows as the point itself, up to the float error of the formula (1e-12 km)
HaversineTable ==
    { <<313, 10167, 313, 10167, 0>>,
      <<313, 10167, 315, 10171, 4966817>>,
      <<313, 10167, 317, 10165, 4971287>>,
      <<315, 10171, 313, 10167, 4966817>>,
      <<315, 10171, 315, 10171, 0>>,
      <<315, 10171, 317, 10165, 7022962>>,
      <<314, 10169, 313, 10167, 2483418>>,
      <<314, 10169, 315, 10171, 2483399>>,
      <<314, 10169, 317, 10165, 5554355>>,
      <<315, 10165, 313, 10167, 3142708>>,
      <<315, 10165, 315, 10171, 6661616>>,
      <<315, 10165, 317, 10165, 2223899>>,
      <<36313, 10167, 313, 10167, 1>>,
      <<36313, 10167, 315, 10171, 4966817>>,
      <<36313, 10167, 317, 10165, 4971287>>,
      <<313, 46167, 313, 10167, 1>>,
      <<313, 46167, 315, 10171, 4966817>>,
      <<313, 46167, 317, 10165, 4971287>> }

haversine(lat1, lon1, lat2, lon2) ==
    (CHOOSE e \in HaversineTable :
        e[1] = lat1 /\ e[2] = lon1 /\ e[3] = lat2 /\ e[4] = lon2)[5]

\* round(dist, 3)
Round3(dist) == (dist + 500) \div 1000

\* the select's filter and "if lat is not None and lng is not None"
HasCoordinates(outlet) == outlet.latitude # None /\ outlet.longitude # None

\* the radius test with the default radius instead of the one asked for
WithinDefaultRadius(dist, distance_km) == dist <= 5 * 1000000

\* "if dist <= distance_km"
WithinRadius(dist, distance_km) == dist <= distance_km * 1000000

\* the distance of a row from the origin
DistanceTo(o, outlet) ==
    haversine(o.latitude, o.longitude, Get(outlet.latitude), Get(outlet.longitude))

\* results after the loop over the rows
RECURSIVE NearbyLoop(_, _)
NearbyLoop(o, rows) ==
    IF rows = <<>> THEN <<>>
    ELSE (IF HasCoordinates(Head(rows))
             /\ WithinRadius(DistanceTo(o, Head(rows)), o.distance_km)
          THEN <<Head(rows) @@ [distance_km |-> Round3(DistanceTo(o, Head(rows)))]>>
          ELSE <<>>) \o NearbyLoop(o, Tail(rows))

\* a sort that puts an element before the placed elements of equal distance_km
RECURSIVE InsertAscUnstable(_, _)
InsertAscUnstable(sorted, x) ==
    IF sorted = <<>> THEN <<x>>
    ELSE IF Head(sorted).distance_km < x.distance_km
    THEN <<Head(sorted)>> \o InsertAscUnstable(Tail(sorted), x)
    ELSE <<x>> \o sorted

\* results.sort(key=lambda x: x["distance_km"]): stable, so each element goes
\* after the elements already placed whose distance_km is not larger
RECURSIVE InsertAsc(_, _)
InsertAsc(sorted, x) ==
    IF sorted = <<>> THEN <<x>>
    ELSE IF Head(sorted).distance_km <= x.distance_km
    THEN <<Head(sorted)>> \o InsertAsc(Tail(sorted), x)
    ELSE <<x>> \o sorted
RECURSIVE SortAsc(_)
SortAsc(xs) ==
    IF xs = <<>> THEN <<>>
    ELSE InsertAsc(SortAsc(SubSeq(xs, 1, Len(xs) - 1)), xs[Len(xs)])

get_nearby_outlets(o, rows) == SortAsc(NearbyLoop(o, SelectSeq(rows, HasCoordinates)))

---------------------------------------------------------------------------
(* Bounds and sample inputs *)

\* tokens appended to an hours text
MaxTokens == 3
\* rows in the outlets table
MaxOutlets == 3
\* tokens appended to an hours text given to the compressor
MaxClosingTokens == 2

\* hours texts as the scraper stores them and as the documentation quotes them
HoursSamples ==
    { <<>>,
      <<"M","o","n","-","S","u","n",":"," ","8","A","M"," ","-"," ","1","0","P","M">>,  \* "Mon-Sun: 8AM - 10PM"
      <<"0","8",":","0","0"," ","-"," ","2","2",":","3","0">>,  \* "08:00 - 22:30"
      <<"8",":","0","0"," ","A","M"," ","-"," ","1","0",":","3","0"," ","P","M">>,  \* "8:00 AM - 10:30 PM"
      <<"2","4"," ","H","o","u","r","s">>,  \* "24 Hours"
      <<"1","2","A","M">>,  \* "12AM"
      <<"1","0"," ","p","m">> }  \* "10 pm"

\* rows of the outlets table: name and address are never empty (scrape.py keeps
\* only such outlets), operating hours are free text or null, coordinates are
\* null until geocoded; coordinates are in hundredths of a degree
Row1 == [id |-> 1, name |-> Some(<<"A">>),
         address |-> Some(<<"1"," ","J","a","l","a","n"," ","B","a","n","g","s","a","r">>),
         operating_hours |-> Some(<<"M","o","n","-","S","u","n",":"," ","8","A","M"," ","-"," ","1","0","P","M">>),
         latitude |-> Some(313), longitude |-> Some(10167)]
Row2 == [id |-> 2, name |-> Some(<<"B">>),
         address |-> Some(<<"2"," ","J","a","l","a","n"," ","B","a","n","g","s","a","r">>),
         operating_hours |-> Some(<<"1","0"," ","p","m">>),
         latitude |-> None, longitude |-> None]
Row3 == [id |-> 3, name |-> Some(<<"C">>),
         address |-> Some(<<"3"," ","K","L","C","C"," ","T","o","w","e","r">>),
         operating_hours |-> Some(<<"0","8",":","0","0"," ","-"," ","2","2",":","3","0">>),
         latitude |-> Some(315), longitude |-> Some(10171)]
Row4 == [id |-> 4, name |-> Some(<<"D">>),
         address |-> Some(<<"4"," ","M","o","n","t","K","i","a","r","a">>),
         operating_hours |-> Some(<<"1","2","A","M">>),
         latitude |-> Some(317), longitude |-> Some(10165)]
Row5 == [id |-> 5, name |-> Some(<<"E">>),
         address |-> Some(<<"5"," ","J","a","l","a","n"," ","A","m","p","a","n","g">>),
         operating_hours |-> None,
         latitude |-> Some(316), longitude |-> None]
Row6 == [id |-> 6, name |-> Some(<<"F">>),
         address |-> Some(<<"6"," ","J","a","l","a","n"," ","B","a","n","g","s","a","r">>),
         operating_hours |-> Some(<<"2","4"," ","H","o","u","r","s">>),
         latitude |-> Some(313), longitude |-> Some(10167)]
SampleRows == {Row1, Row2, Row3, Row4, Row5, Row6}

\* the snapshots: up to n distinct rows in any order
RECURSIVE Snapshots(_)
Snapshots(n) ==
    IF n = 0 THEN {<<>>}
    ELSE LET shorter == Snapshots(n - 1) IN
         shorter \cup {Append(e[1], e[2]) :
                          e \in {x \in shorter \X SampleRows :
                                    \A i \in 1..Len(x[1]) : x[1][i] # x[2]}}

\* rows with a null column, as the table admits them from a writer other than
\* the scraper: supabase returns every column of a row, a null one as None
RowNoAddress == [id |-> 7, name |-> Some(<<"G">>),
                 address |-> None,
                 operating_hours |-> Some(<<"1","0"," ","p","m">>),
                 latitude |-> None, longitude |-> None]
RowNoName == [id |-> 8, name |-> None,
              address |-> Some(<<"8"," ","J","a","l","a","n"," ","B","a","n","g","s","a","r">>),
              operating_hours |-> Some(<<"M","o","n","-","S","u","n",":"," ","8","A","M"," ","-"," ","1","0","P","M">>),
              latitude |-> None, longitude |-> None]
NullColumnRows == {RowNoAddress, RowNoName}

\* a row with a null name, address or operating hours
Malformed(row) ==
    row.name = None \/ row.address = None \/ row.operating_hours = None

\* up to n distinct rows of a set in any order
RECURSIVE SnapshotsOf(_, _)
SnapshotsOf(n, rows) ==
    IF n = 0 THEN {<<>>}
    ELSE LET shorter == SnapshotsOf(n - 1, rows) IN
         shorter \cup {Append(e[1], e[2]) :
                          e \in {x \in shorter \X rows :
                                    \A i \in 1..Len(x[1]) : x[1][i] # x[2]}}

\* the snapshots with a single malformed row
MalformedSnapshots ==
    {s \in SnapshotsOf(MaxOutlets, SampleRows \cup NullColumnRows) :
        Cardinality({i \in 1..Len(s) : Malformed(s[i])}) = 1}

\* questions
Questions ==
    { <<"h","o","w"," ","m","a","n","y"," ","o","u","t","l","e","t","s"," ","i","n"," ","B","a","n","g","s","a","r">>,  \* "how many outlets in Bangsar"
      <<"h","o","w"," ","m","a","n","y"," ","o","u","t","l","e","t","s"," ","i","n"," ","T","i","m","b","u","k","t","u">>,  \* "how many outlets in Timbuktu"
      <<"H","o","w"," ","M","a","n","y"," ","i","n"," ","m","o","n","t","k","i","a","r","a"," ","a","n","d"," ","K","L","C","C">>,  \* "How Many in montkiara and KLCC"
      <<"w","h","i","c","h"," ","o","u","t","l","e","t"," ","c","l","o","s","e","s"," ","l","a","t","e","s","t">>,  \* "which outlet closes latest"
      <<"c","o","u","n","t"," ","t","h","e"," ","l","a","t","e","s","t"," ","c","l","o","s","i","n","g"," ","o","u","t","l","e","t","s">>,  \* "count the latest closing outlets"
      <<"h","o","w"," ","m","a","n","y"," ","c","l","o","s","e","s"," ","l","a","t","e","s","t"," ","i","n"," ","K","L","C","C">>,  \* "how many closes latest in KLCC"
      <<"w","h","e","r","e"," ","i","s"," ","K","L","C","C">> }  \* "where is KLCC"

\* where a search starts, and the radius asked for in kilometres
Origins == { <<313, 10167>>, <<315, 10171>>, <<314, 10169>>, <<315, 10165>>,
             <<36313, 10167>>, <<313, 46167>> }
Radii == {-1, 0, 3, 5, 7}

\* message contents the completion service may return
Contents ==
    { None, Some(<<>>), Some(<<" ">>),
      Some(<<" ","2"," ","o","u","t","l","e","t","s"," ">>),  \* " 2 outlets\n" with the line break as a space
      Some(<<"R","o","w"," ","A">>) }  \* "Row A"

\* pieces of an hours text
HoursTokens ==
    { <<"8">>, <<"1","0">>, <<"1","2">>, <<":","0","0">>, <<":","3","0">>,
      <<"A","M">>, <<"P","M">>, <<"p","m">>, <<" ">>, <<"-">> }

IdleChat == /\ query = <<>> /\ ran = <<>> /\ direct_answer = None
            /\ llm_calls = 0 /\ prompt = None /\ llm_reply = None /\ response = None
IdleNorm == hours_str = None /\ closing_time = None /\ ntok = 0 /\ closing_token = None
IdleNearby == origin = None /\ results = <<>>

chatVars == <<query, ran, direct_answer, llm_calls, prompt, llm_reply, response>>
normVars == <<hours_str, closing_time, ntok, closing_token>>
nearbyVars == <<origin, results>>

---------------------------------------------------------------------------
(* The normalizer on its own: an hours text is put together and            *)
(* extract_and_normalize_closing_time is applied to it.                    *)

InitNorm ==
    /\ outlets = <<>>
    /\ pc = "norm_call"
    /\ IdleChat /\ IdleNearby
    /\ hours_str \in {None} \cup {Some(h) : h \in HoursSamples}
    /\ closing_time = None
    /\ ntok = 0
    /\ closing_token = None

AppendToken(t) ==
    /\ pc = "norm_call"
    /\ hours_str # None
    /\ ntok < MaxTokens
    /\ hours_str' = Some(Get(hours_str) \o t)
    /\ ntok' = ntok + 1
    /\ UNCHANGED <<outlets, pc, closing_time, closing_token, chatVars, nearbyVars>>

Normalize ==
    /\ pc = "norm_call"
    /\ closing_time' = extract_and_normalize_closing_time(hours_str)
    /\ pc' = "norm_done"
    /\ UNCHANGED <<outlets, hours_str, ntok, closing_token, chatVars, nearbyVars>>

NextNorm ==
    \/ \E t \in HoursTokens : AppendToken(t)
    \/ Normalize

SpecNorm == InitNorm /\ [][NextNorm]_vars

\* The compressor's extract_closing_time on its own: an hours text is put
\* together from the same samples and tokens and the function is applied to it
AppendClosingToken(t) ==
    /\ pc = "norm_call"
    /\ hours_str # None
    /\ ntok < MaxClosingTokens
    /\ hours_str' = Some(Get(hours_str) \o t)
    /\ ntok' = ntok + 1
    /\ UNCHANGED <<outlets, pc, closing_time, closing_token, chatVars, nearbyVars>>

ExtractClosing ==
    /\ pc = "norm_call"
    /\ closing_token' = Some(extract_closing_time(hours_str))
    /\ pc' = "closing_done"
    /\ UNCHANGED <<outlets, hours_str, closing_time, ntok, chatVars, nearbyVars>>

NextClosing ==
    \/ \E t \in HoursTokens : AppendClosingToken(t)
    \/ ExtractClosing

SpecClosing == InitNorm /\ [][NextClosing]_vars

---------------------------------------------------------------------------
(* The service: POST /chat-completion, one request at a time.              *)

NoAnswerGenerated == <<"N","o"," ","a","n","s","w","e","r"," ","g","e","n","e","r","a","t","e","d",".">>

Ok(answer) == Some([status |-> 200, answer |-> answer])
\* "except Exception": HTTPException(status_code=500)
Failed == Some([status |-> 500, answer |-> <<>>])

Init ==
    /\ outlets \in Snapshots(MaxOutlets)
    /\ pc = "idle"
    /\ IdleChat /\ IdleNorm /\ IdleNearby

\* chat_completion is entered: the snapshot is read, the question taken
ChatRequest(q) ==
    /\ pc = "idle"
    /\ query' = q
    /\ pc' = "direct_processing"
    /\ UNCHANGED <<outlets, ran, direct_answer, llm_calls, prompt, llm_reply, response,
                   normVars, nearbyVars>>

\* the resolver returned r, or raised into chat_completion's except
AfterResolver(r) ==
    IF r.raised
    THEN /\ response' = Failed
         /\ pc' = "done"
         /\ UNCHANGED direct_answer
    ELSE /\ direct_answer' = r.value
         /\ pc' = "dispatch"
         /\ UNCHANGED response

\* handle_direct_processing, counting branch
RunCounting ==
    /\ pc = "direct_processing"
    /\ Classify(query) = "counting"
    /\ ran' = Append(ran, "counting")
    /\ AfterResolver(handle_counting_directly(Lower(query), outlets))
    /\ UNCHANGED <<outlets, query, llm_calls, prompt, llm_reply, normVars, nearbyVars>>

\* handle_direct_processing, latest-closing branch
RunLatestClosing ==
    /\ pc = "direct_processing"
    /\ Classify(query) = "latest"
    /\ ran' = Append(ran, "latest")
    /\ AfterResolver(handle_latest_closing_directly(outlets))
    /\ UNCHANGED <<outlets, query, llm_calls, prompt, llm_reply, normVars, nearbyVars>>

\* handle_direct_processing, no trigger: return None
NoResolver ==
    /\ pc = "direct_processing"
    /\ Classify(query) = "none"
    /\ direct_answer' = None
    /\ pc' = "dispatch"
    /\ UNCHANGED <<outlets, query, ran, llm_calls, prompt, llm_reply, response,
                   normVars, nearbyVars>>

\* chat_completion without the early return: every request goes on to the fallback
NeverUsesDirectAnswer(answer) == FALSE

\* "if direct_answer:"
UsesDirectAnswer(answer) == TruthyText(answer)

\* chat_completion returns the resolver's answer
ReturnDirect ==
    /\ pc = "dispatch"
    /\ UsesDirectAnswer(direct_answer)
    /\ response' = Ok(Get(direct_answer))
    /\ pc' = "done"
    /\ UNCHANGED <<outlets, query, ran, direct_answer, llm_calls, prompt, llm_reply,
                   normVars, nearbyVars>>

\* handle_llm_processing up to requests.post
CallLlm ==
    /\ pc = "dispatch"
    /\ ~UsesDirectAnswer(direct_answer)
    /\ prompt' = Some([total |-> Len(outlets),
                       rows |-> compress_outlet_data(outlets),
                       question |-> query])
    /\ llm_calls' = llm_calls + 1
    /\ pc' = "llm_wait"
    /\ UNCHANGED <<outlets, query, ran, direct_answer, llm_reply, response,
                   normVars, nearbyVars>>

\* the completion service answers with a message content
LlmReplies(content) ==
    /\ pc = "llm_wait"
    /\ llm_reply' = Some([failed |-> FALSE, content |-> content])
    /\ pc' = "llm_reply"
    /\ UNCHANGED <<outlets, query, ran, direct_answer, llm_calls, prompt, response,
                   normVars, nearbyVars>>

\* the call times out, or the service answers with an error status
LlmFails ==
    /\ pc = "llm_wait"
    /\ llm_reply' = Some([failed |-> TRUE, content |-> None])
    /\ pc' = "llm_reply"
    /\ UNCHANGED <<outlets, query, ran, direct_answer, llm_calls, prompt, response,
                   normVars, nearbyVars>>

\* "answer = content.strip() if content is not None else ..."
LlmAnswer(content) == IF content # None THEN Strip(Get(content)) ELSE NoAnswerGenerated

\* handle_llm_processing after requests.post, and chat_completion's except
HandleLlmReply ==
    /\ pc = "llm_reply"
    /\ response' = IF Get(llm_reply).failed THEN Failed
                   ELSE Ok(LlmAnswer(Get(llm_reply).content))
    /\ pc' = "done"
    /\ UNCHANGED <<outlets, query, ran, direct_answer, llm_calls, prompt, llm_reply,
                   normVars, nearbyVars>>

\* get_nearby_outlets
NearbyRequest(at, km) ==
    /\ pc = "idle"
    /\ origin' = Some([latitude |-> at[1], longitude |-> at[2], distance_km |-> km])
    /\ results' = get_nearby_outlets([latitude |-> at[1], longitude |-> at[2],
                                      distance_km |-> km], outlets)
    /\ pc' = "nearby_done"
    /\ UNCHANGED <<outlets, chatVars, normVars>>

\* the response is sent; the request's locals are gone
Finish ==
    /\ pc \in {"done", "nearby_done"}
    /\ pc' = "idle"
    /\ query' = <<>> /\ ran' = <<>> /\ direct_answer' = None
    /\ llm_calls' = 0 /\ prompt' = None /\ llm_reply' = None /\ response' = None
    /\ origin' = None /\ results' = <<>>
    /\ UNCHANGED <<outlets, normVars>>

Next ==
    \/ \E q \in Questions : ChatRequest(q)
    \/ RunCounting
    \/ RunLatestClosing
    \/ NoResolver
    \/ ReturnDirect
    \/ CallLlm
    \/ \E c \in Contents : LlmReplies(c)
    \/ LlmFails
    \/ HandleLlmReply
    \/ \E at \in Origins, km \in Radii : NearbyRequest(at, km)
    \/ Finish

Spec == Init /\ [][Next]_vars

\* the service over a table that holds one malformed row
InitMalformed ==
    /\ outlets \in MalformedSnapshots
    /\ pc = "idle"
    /\ IdleChat /\ IdleNorm /\ IdleNearby

SpecMalformed == InitMalformed /\ [][Next]_vars

---------------------------------------------------------------------------
(* The time expressions written in a text: one pass from left to right,    *)
(* at each position the first of H:MM AM/PM, H AM/PM, H:MM that matches,   *)
(* each expression read once.                                              *)

WrittenAt(s, i) ==
    LET a == MatchAt("H:MM AM/PM", s, i)
        b == MatchAt("H AM/PM", s, i)
        c == MatchAt("H:MM", s, i)
    IN IF a.ok THEN a ELSE IF b.ok THEN b ELSE c

RECURSIVE WrittenFrom(_, _)
WrittenFrom(s, i) ==
    IF i > Len(s) THEN <<>>
    ELSE LET m == WrittenAt(s, i) IN
         IF m.ok THEN <<MatchMinutes(m.groups)>> \o WrittenFrom(s, m.end)
         ELSE WrittenFrom(s, i + 1)

LatestWritten(hours) ==
    IF hours = None THEN None
    ELSE LET ts == WrittenFrom(Upper(Get(hours)), 1) IN
         IF ts = <<>> THEN None ELSE Some(MaxOf(ts))

\* C1: extract_and_normalize_closing_time returns the maximum, over the time
\* expressions written in the hours text, of the expression's minutes since
\* midnight ("8:00 AM - 10:30 PM" gives 1350).
C1_LatestOfWrittenTimes ==
    pc = "norm_done" => closing_time = LatestWritten(hours_str)

\* C2: the value returned by extract_and_normalize_closing_time is None or an
\* integer in 0..1439.
C2_MinutesInDayRange ==
    pc = "norm_done" =>
        (closing_time = None \/ Get(closing_time) \in 0..1439)

---------------------------------------------------------------------------
(* Claims about the latest-closing resolver *)

\* the normalizer finds a time in the row's hours text
HasExtractableTime(row) ==
    extract_and_normalize_closing_time(row.operating_hours) # None
ExtractedTime(row) == Get(extract_and_normalize_closing_time(row.operating_hours))

\* the latest-closing resolver has returned for the request being served
LatestReturned == ran = <<"latest">> /\ pc \in {"dispatch", "done"}

\* C3: an outlet is left out of the comparison iff its hours text yields no
\* time, so "Closing times not available" is the answer only when no outlet has
\* an extractable time; an outlet whose time is midnight (0) is a candidate.
C3_UnavailableOnlyWithoutTimes ==
    (LatestReturned /\ direct_answer = Some(NotAvailable)) =>
        \A i \in 1..Len(outlets) : ~HasExtractableTime(outlets[i])

\* the rows, in snapshot order, whose time is the maximum over the rows with an
\* extractable time
ClosesAtMax(row) ==
    /\ HasExtractableTime(row)
    /\ \A j \in 1..Len(outlets) :
          HasExtractableTime(outlets[j]) => ExtractedTime(outlets[j]) <= ExtractedTime(row)
Winners == SelectSeq(outlets, ClosesAtMax)
WinnerNames == [i \in 1..Len(Winners) |-> Get(Winners[i].name)]

\* C4: the resolver names every outlet whose time equals the maximum over the
\* outlets with an extractable time: "{name} - Closes latest" for one,
\* "These outlets close latest: " and the names joined by ", " in snapshot
\* order for several.
C4_AllLatestInSnapshotOrder ==
    (LatestReturned /\ \E i \in 1..Len(outlets) : HasExtractableTime(outlets[i])) =>
        direct_answer =
            IF Len(Winners) = 1 THEN Some(WinnerNames[1] \o ClosesLatest)
            ELSE Some(TheseCloseLatest \o Join(<<",", " ">>, WinnerNames))

---------------------------------------------------------------------------
(* Claims about the counting resolver and the choice of resolver *)

HowMany == <<"h","o","w"," ","m","a","n","y">>
Count == <<"c","o","u","n","t">>
ClosesLatestTrigger == <<"c","l","o","s","e","s"," ","l","a","t","e","s","t">>
LatestClosingTrigger == <<"l","a","t","e","s","t"," ","c","l","o","s","i","n","g">>

IsCountingQuestion(q) == Contains(Lower(q), HowMany) \/ Contains(Lower(q), Count)
IsLatestQuestion(q) ==
    Contains(Lower(q), ClosesLatestTrigger) \/ Contains(Lower(q), LatestClosingTrigger)

\* keyword k of the vocabulary occurs in the text, letter case and spaces ignored
KeywordIn(k, text) ==
    Contains(RemoveSpaces(Lower(text)), RemoveSpaces(Lower(CountingLocations[k])))
NamesALocation(q) == \E k \in 1..Len(CountingLocations) : KeywordIn(k, q)
FirstKeyword(q) ==
    CHOOSE k \in 1..Len(CountingLocations) :
        KeywordIn(k, q) /\ \A j \in 1..(k - 1) : ~KeywordIn(j, q)

\* handle_direct_processing has returned for the request being served
Resolved == pc \in {"dispatch", "llm_wait", "llm_reply", "done"}
\* the request was answered by the completion service, not by a resolver
WentToFallback == llm_calls = 1 /\ prompt # None /\ llm_reply # None

\* C5: a counting question that names no location of the vocabulary makes the
\* counting resolver decline (return None) and the request go to the fallback;
\* the resolver never answers it with a count.
C5_UnknownLocationDeclines ==
    (Resolved /\ IsCountingQuestion(query) /\ ~NamesALocation(query)) =>
        /\ direct_answer = None
        /\ pc = "done" => WentToFallback

C5_Witness ==
    /\ pc = "done"
    /\ query = <<"h","o","w"," ","m","a","n","y"," ","o","u","t","l","e","t","s"," ","i","n"," ","T","i","m","b","u","k","t","u">>
    /\ outlets # <<>>
    /\ direct_answer = None
    /\ WentToFallback
    /\ response # None /\ Get(response).status = 200

\* C6: when a counting question names a keyword, the target is the first
\* keyword in vocabulary order occurring in the question, and the answer is
\* "{count} outlets in {Location}", count being the number of rows whose address
\* contains the keyword; the three addresses of the documentation with
\* "how many outlets in Bangsar" give "2 outlets in Bangsar".
C6_CountsFirstKeyword ==
    (Resolved /\ IsCountingQuestion(query) /\ NamesALocation(query)) =>
        /\ direct_answer =
              Some(ToStr(Cardinality({i \in 1..Len(outlets) :
                                        KeywordIn(FirstKeyword(query), Get(outlets[i].address))}))
                   \o <<" ","o","u","t","l","e","t","s"," ","i","n"," ">>
                   \o Title(CountingLocations[FirstKeyword(query)]))
        /\ pc = "done" => response = Ok(Get(direct_answer)) /\ llm_calls = 0

C6_Witness ==
    /\ pc = "done"
    /\ query = <<"h","o","w"," ","m","a","n","y"," ","o","u","t","l","e","t","s"," ","i","n"," ","B","a","n","g","s","a","r">>
    /\ outlets = <<Row1, Row2, Row3>>
    /\ response = Ok(<<"2"," ","o","u","t","l","e","t","s"," ","i","n"," ","B","a","n","g","s","a","r">>)

\* C7: at most one resolver runs for a question; the counting trigger is
\* checked first, so a question with both triggers runs only the counting
\* resolver, and when the counting resolver declines the request goes to the
\* fallback and the latest-closing resolver never runs.
C7_OneResolverCountingFirst ==
    /\ Len(ran) <= 1
    /\ Resolved =>
          ran = IF IsCountingQuestion(query) THEN <<"counting">>
                ELSE IF IsLatestQuestion(query) THEN <<"latest">>
                ELSE <<>>
    /\ (pc = "done" /\ ran = <<"counting">> /\ direct_answer = None) => WentToFallback

C7_Witness ==
    /\ pc = "done"
    /\ IsCountingQuestion(query) /\ IsLatestQuestion(query)
    /\ ran = <<"counting">>
    /\ direct_answer = None
    /\ WentToFallback

---------------------------------------------------------------------------
(* Claims about the fallback *)

\* C8: the completion service is called zero times when a resolver returns an
\* answer ("Closing times not available" included) and exactly once otherwise;
\* a failure or timeout of the call is not retried and fails the request.
C8_CompletionCalledAtMostOnce ==
    /\ llm_calls <= 1
    /\ pc = "done" => llm_calls = (IF direct_answer # None THEN 0 ELSE 1)
    /\ (pc = "done" /\ direct_answer # None) => response = Ok(Get(direct_answer))
    /\ (pc = "done" /\ llm_reply # None /\ Get(llm_reply).failed) =>
          response = Failed /\ llm_calls = 1

C8_Witness ==
    /\ pc = "done"
    /\ llm_reply # None /\ Get(llm_reply).failed
    /\ llm_calls = 1
    /\ response = Failed

\* the service returned no content: absent, empty or white space only
NoContent(content) == content = None \/ Strip(Get(content)) = <<>>

\* C9: the fallback's answer is never the empty string: it is the completion
\* text stripped, and "No answer generated." whenever the service returns no
\* content (absent, empty or white space only).
C9_FallbackAnswerNeverEmpty ==
    (pc = "done" /\ llm_reply # None /\ ~Get(llm_reply).failed) =>
        /\ Get(response).status = 200
        /\ Get(response).answer # <<>>
        /\ Get(response).answer =
              IF NoContent(Get(llm_reply).content) THEN NoAnswerGenerated
              ELSE Strip(Get(Get(llm_reply).content))

---------------------------------------------------------------------------
(* Claims about the nearby search *)

\* the rows of the snapshot the search is to return
IsNear(row) ==
    /\ row.latitude # None
    /\ row.longitude # None
    /\ haversine(Get(origin).latitude, Get(origin).longitude,
                 Get(row.latitude), Get(row.longitude))
          <= Get(origin).distance_km * 1000000
NearIds == {outlets[i].id : i \in {j \in 1..Len(outlets) : IsNear(outlets[j])}}

\* the row of the snapshot a result was made from
SameRow(result, row) ==
    /\ result.id = row.id /\ result.name = row.name /\ result.address = row.address
    /\ result.operating_hours = row.operating_hours
    /\ result.latitude = row.latitude /\ result.longitude = row.longitude

\* C10: get_nearby_outlets returns exactly the rows of the snapshot that have
\* both coordinates and whose haversine distance from the origin is at most
\* the radius; a row missing a coordinate is left out without an error.
C10_ExactlyTheNearRows ==
    pc = "nearby_done" =>
        /\ {results[i].id : i \in 1..Len(results)} = NearIds
        /\ Len(results) = Cardinality(NearIds)
        /\ \A i \in 1..Len(results) :
              \E j \in 1..Len(outlets) : SameRow(results[i], outlets[j])

C10_Witness ==
    /\ pc = "nearby_done"
    /\ \E i \in 1..Len(outlets) : outlets[i].latitude # None /\ outlets[i].longitude = None
    /\ \E i \in 1..Len(outlets) : HasCoordinates(outlets[i]) /\ ~IsNear(outlets[i])
    /\ Len(results) = 1

\* the distance of a result from the origin as haversine computes it
ComputedDistance(result) ==
    haversine(Get(origin).latitude, Get(origin).longitude,
              Get(result.latitude), Get(result.longitude))
\* the place of a result's row in the snapshot
PositionOf(result) == CHOOSE j \in 1..Len(outlets) : outlets[j].id = result.id

\* C11 as stated: the list is sorted non-decreasing by each outlet's computed
\* distance from the origin, and outlets at equal distance keep snapshot order.
C11_SortedByComputedDistance ==
    pc = "nearby_done" =>
        \A i, j \in 1..Len(results) :
            i < j =>
                /\ ComputedDistance(results[i]) <= ComputedDistance(results[j])
                /\ ComputedDistance(results[i]) = ComputedDistance(results[j]) =>
                      PositionOf(results[i]) < PositionOf(results[j])

\* C11 as amended: the list is sorted non-decreasing by each outlet's reported
\* distance_km (the computed distance rounded to three decimals), and outlets
\* with equal reported distance keep snapshot order.
C11_SortedByReportedDistance ==
    pc = "nearby_done" =>
        /\ \A i \in 1..Len(results) :
              results[i].distance_km = Round3(ComputedDistance(results[i]))
        /\ \A i, j \in 1..Len(results) :
              i < j =>
                /\ results[i].distance_km <= results[j].distance_km
                /\ results[i].distance_km = results[j].distance_km =>
                      PositionOf(results[i]) < PositionOf(results[j])

\* two results with the same reported distance, the first one farther away
C11_Witness ==
    /\ pc = "nearby_done"
    /\ \E i, j \in 1..Len(results) :
          /\ i < j
          /\ results[i].distance_km = results[j].distance_km
          /\ ComputedDistance(results[i]) > ComputedDistance(results[j])

\* the parameters the search is to refuse
InvalidParameter(o) ==
    \/ o.distance_km <= 0
    \/ o.latitude < -9000 \/ o.latitude > 9000
    \/ o.longitude < -18000 \/ o.longitude > 18000

\* C12: get_nearby_outlets fails, returning no list, whenever the radius is
\* not positive, the latitude is outside [-90, 90] or the longitude is outside
\* [-180, 180]: a list is returned only for valid parameters.
C12_InvalidParameterRefused ==
    pc = "nearby_done" => ~InvalidParameter(Get(origin))

---------------------------------------------------------------------------
(* Claims about malformed rows *)

\* the snapshot without its malformed rows
Remaining == SelectSeq(outlets, LAMBDA row : ~Malformed(row))

\* C13: a single row with a null address, name or operating hours never makes
\* a request fail: the counting resolver, the latest-closing resolver and the
\* compressor skip the row and give their result over the remaining rows.
C13_MalformedRecordSkipped ==
    /\ (pc = "done" /\ llm_reply = None) => response # Failed
    /\ (pc = "dispatch" /\ ran = <<"counting">>) =>
          direct_answer = handle_counting_directly(Lower(query), Remaining).value
    /\ (pc = "dispatch" /\ ran = <<"latest">>) =>
          direct_answer = handle_latest_closing_directly(Remaining).value
    /\ prompt # None => Get(prompt).rows = compress_outlet_data(Remaining)

---------------------------------------------------------------------------
(* Claims about the empty snapshot *)

\* the answers that say there is nothing to answer with
Sentinels == {NoAnswerGenerated, NotAvailable}

\* C14: with an empty snapshot the fallback completes without failing and
\* returns a no-answer sentinel rather than a generated answer, and building
\* the retrieval index over zero outlets does not fail.
C14_EmptySnapshotNoAnswer ==
    (pc = "done" /\ outlets = <<>> /\ prompt # None) =>
        /\ Get(response).status = 200
        /\ Get(response).answer \in Sentinels
        /\ \E embedded \in BOOLEAN : ~build_vector_store(outlets, embedded).raised

---------------------------------------------------------------------------
(* Claims about the compressor *)

\* the matches of the three patterns the statement names, white space allowed
\* before AM/PM, in a text
TimeExpressions(s) ==
    UNION {{FindAll(p, s)[i] : i \in 1..Len(FindAll(p, s))} :
              p \in {"H:MM AM/PM", "H AM/PM", "H:MM"}}
\* the one that occurs last: it ends last, and is the longest of those
LastExpression(s) ==
    CHOOSE m \in TimeExpressions(s) :
        \A other \in TimeExpressions(s) :
            \/ other.end < m.end
            \/ other.end = m.end /\ Len(other.text) <= Len(m.text)

LastOf(p, s) == FindAll(p, s)[Len(FindAll(p, s))].text

ExpectedKeyword(address) ==
    IF NamesALocation(address) THEN CountingLocations[FirstKeyword(address)]
    ELSE Prefix(address, 20)

\* C17: the compressor's location keyword is the first keyword, in the order of
\* the counting resolver's vocabulary, that occurs in the address with letter
\* case and spaces ignored, and the first 20 characters of the address if none
\* does: the compressed row of every outlet carries that keyword (compared
\* without regard to letter case).
C17_CompressorKeywordFromCounting ==
    prompt # None =>
        \A i \in 1..Len(outlets) :
            Lower(Get(prompt).rows[i]) =
                Lower(Fmt(outlets[i].name) \o <<"|">>
                      \o ExpectedKeyword(Get(outlets[i].address)) \o <<"|">>
                      \o extract_closing_time(outlets[i].operating_hours))

====
